---- MODULE Spec2Model ----
(***************************************************************************)
(* Team-member account lifecycle of projectify-app-api:                    *)
(* src/services/team-member.service.js driven by                           *)
(* src/controllers/team-member.controller.js.                              *)
(*                                                                         *)
(* The shared state is the teamMember table and the mail provider's        *)
(* outbox.  Every service method is an async function: it runs from one    *)
(* await to the next without interruption, and between two awaits the      *)
(* requests of other callers may run.  Each action below is one such       *)
(* segment of one request: the local computation plus the single store     *)
(* round-trip, mail dispatch or bcrypt call it awaits.                     *)
(*                                                                         *)
(* The store answers every query; an update or delete whose where clause   *)
(* matches no row throws, as Prisma does.  The mail provider may fail: the *)
(* awaited dispatch then throws and the request ends with that error.      *)
(***************************************************************************)
EXTENDS Integers, Sequences, FiniteSets, TLC

VARIABLES store, nextId, nextToken, outbox, calls, response

vars == <<store, nextId, nextToken, outbox, calls, response>>

(* ----------------------------- bounds ---------------------------------- *)

\* number of rows ever created in the teamMember table
MaxMembers == 2
\* number of invite tokens crypto.createToken() ever hands out
MaxTokens == 2

Calls == {"c1", "c2"}
Admins == {"a1", "a2"}
Emails == {"e1", "e2"}
Passwords == {"p1", "p2"}
Ids == 1..MaxMembers
Tokens == 1..MaxTokens

(* ------------------------ values and primitives ------------------------ *)

\* SQL NULL / JS null of a nullable column
NULL == <<>>

\* crypto.hash: deterministic one-way digest of an invite token
Hash(t) == <<"sha", t>>

\* bcrypt.hash / bcrypt.compare
BcryptHash(p) == <<"bcrypt", p>>

Compare(p, h) == h # NULL /\ h = BcryptHash(p)

\* jwt.sign({teamMember: {id, adminId}}, secret, {expiresIn: "2 days"})
JwtSign(tm) == <<"jwt", tm.id, tm.adminId, "2 days">>

\* status given to a new row when the insert names none
DefaultStatus == "INACTIVE"

NoTeamMember == [id |-> 0, adminId |-> "none", status |-> "none", password |-> NULL]

IdleCall ==
    [op |-> "none", pc |-> "idle", adminId |-> "none", teamMemberId |-> 0,
     email |-> "none", password |-> "none", inviteToken |-> 0,
     status |-> "none", teamMember |-> NoTeamMember]

\* no response sent yet
NoResponse == [status |-> 0, message |-> "", token |-> NULL]

(* --------------------------- store queries ----------------------------- *)

\* prisma.teamMember.findUnique({where: {id}})
FindById(id) == IF id \in DOMAIN store THEN {id} ELSE {}

\* prisma.teamMember.findUnique({where: {email}})
FindByEmail(email) == {i \in DOMAIN store : store[i].email = email}

\* findFirst with the filter dropped (where: {inviteToken: undefined}): any row
FindByInviteTokenUnfiltered(h) == DOMAIN store

\* prisma.teamMember.findFirst({where: {inviteToken: hash}})
FindByInviteToken(h) == {i \in DOMAIN store : store[i].inviteToken = h}

\* the row picked by findFirst among the matches (lowest id)
First(S) == CHOOSE i \in S : \A j \in S : i <= j

Free(c) == calls[c].pc = "idle"

Begin(c, op) == [IdleCall EXCEPT !.op = op]

\* the request of call slot c ends with the controller's res.status(status)
Respond(c, call, status, message, jwt) ==
    /\ calls' = [calls EXCEPT ![c] = IdleCall]
    /\ response' = [status |-> status, message |-> message, token |-> jwt]

\* the request ends with `throw new CustomError(message, status)`, passed on by catchAsync
Throw(c, call, message, status) == Respond(c, call, status, message, NULL)

\* the request ends with an error thrown by Prisma or by the mail provider
Fail(c, call, message) == Respond(c, call, 500, message, NULL)

\* the request ends with the controller's success response
Send(c, call, status) == Respond(c, call, status, "", NULL)

\* the request goes on to its next await
Continue(c, call) ==
    /\ calls' = [calls EXCEPT ![c] = call]
    /\ UNCHANGED response

(* ------------------------------ writes --------------------------------- *)

\* the row r with the columns named in data overwritten
Patch(r, data) == [f \in DOMAIN r |-> IF f \in DOMAIN data THEN data[f] ELSE r[f]]

\* prisma.teamMember.update({where, data}) on the rows `ids` the where clause selects
Update(ids, data) == [i \in DOMAIN store |-> IF i \in ids THEN Patch(store[i], data) ELSE store[i]]

\* prisma.teamMember.delete({where: {id}})
Remove(id) == [i \in DOMAIN store \ {id} |-> store[i]]

\* prisma.teamMember.create({data}): the new row gets the next id
Insert(data) == [i \in DOMAIN store \cup {nextId} |-> IF i = nextId THEN data ELSE store[i]]

(* ------------------------------ create --------------------------------- *)

\* controller.create + service.create up to and including prisma.create
CreateInsert(c, adminId, input) ==
    /\ Free(c)
    /\ LET inviteToken == nextToken
           call == [Begin(c, "create") EXCEPT !.adminId = adminId, !.email = input.email,
                                              !.inviteToken = inviteToken]
       IN /\ nextToken' = nextToken + 1
          /\ IF FindByEmail(input.email) # {}
             THEN \* unique constraint on email
                  /\ Fail(c, call, "Unique constraint failed")
                  /\ UNCHANGED <<store, nextId>>
             ELSE /\ store' = Insert([adminId |-> adminId, email |-> input.email,
                                      status |-> DefaultStatus, password |-> NULL,
                                      inviteToken |-> Hash(inviteToken),
                                      firstName |-> input.firstName,
                                      lastName |-> input.lastName,
                                      position |-> input.position,
                                      joinDate |-> input.joinDate])
                  /\ nextId' = nextId + 1
                  /\ Continue(c, [call EXCEPT !.pc = "create_mail", !.teamMemberId = nextId])
    /\ UNCHANGED outbox

\* the mailer called twice for one request
SendMailTwice(c, after) ==
    \/ /\ outbox' = Append(Append(outbox, [to |-> calls[c].email, token |-> calls[c].inviteToken]),
                            [to |-> calls[c].email, token |-> calls[c].inviteToken])
       /\ after
    \/ /\ Fail(c, calls[c], "mail dispatch failed")
       /\ UNCHANGED outbox

\* mailer.sendCreatePasswordInviteToTeamMember(email, inviteToken): the provider
\* delivers the mail, or the dispatch throws
SendMail(c, after) ==
    \/ /\ outbox' = Append(outbox, [to |-> calls[c].email, token |-> calls[c].inviteToken])
       /\ after
    \/ /\ Fail(c, calls[c], "mail dispatch failed")
       /\ UNCHANGED outbox

\* create deleting the row it inserted when the dispatch throws
CreateMailRollback(c) ==
    /\ calls[c].pc = "create_mail"
    /\ \/ /\ outbox' = Append(outbox, [to |-> calls[c].email, token |-> calls[c].inviteToken])
          /\ Send(c, calls[c], 201)
          /\ UNCHANGED store
       \/ /\ Fail(c, calls[c], "mail dispatch failed")
          /\ store' = Remove(calls[c].teamMemberId)
          /\ UNCHANGED outbox
    /\ UNCHANGED <<nextId, nextToken>>

\* service.create: the invite mail, then the 201
CreateMail(c) ==
    /\ calls[c].pc = "create_mail"
    /\ SendMail(c, Send(c, calls[c], 201))
    /\ UNCHANGED <<store, nextId, nextToken>>

(* ------------------------------ delete --------------------------------- *)

\* the ownership check left out
NotOwnedBySkipped(teamMemberId, adminId) == FALSE

\* service.delete / service.changeStatus: teamMember.adminId !== adminId
NotOwnedBy(teamMemberId, adminId) == store[teamMemberId].adminId # adminId

\* service.delete: findUnique by id and the three checks
DeleteRead(c, adminId, teamMemberId) ==
    /\ Free(c)
    /\ LET call == [Begin(c, "delete") EXCEPT !.adminId = adminId,
                                              !.teamMemberId = teamMemberId]
       IN IF FindById(teamMemberId) = {}
          THEN Throw(c, call, "Team member does not exist with following id", 404)
          ELSE IF NotOwnedBy(teamMemberId, adminId)
          THEN Throw(c, call, "Forbidden", 403)
          ELSE IF store[teamMemberId].status \in {"ACTIVE", "DEACTIVATED"}
          THEN Throw(c, call, "Only users with INACTIVE status can be deleted!", 404)
          ELSE Continue(c, [call EXCEPT !.pc = "delete_write"])
    /\ UNCHANGED <<store, nextId, nextToken, outbox>>

\* service.delete: prisma.teamMember.delete by id
DeleteWrite(c) ==
    /\ calls[c].pc = "delete_write"
    /\ IF FindById(calls[c].teamMemberId) = {}
       THEN /\ Fail(c, calls[c], "Record to delete does not exist")
            /\ UNCHANGED store
       ELSE /\ store' = Remove(calls[c].teamMemberId)
            /\ Send(c, calls[c], 204)
    /\ UNCHANGED <<nextId, nextToken, outbox>>

(* --------------------------- createPassword ---------------------------- *)

\* service.createPassword: hash the token and the password, findFirst by token hash
CreatePasswordRead(c, inviteToken, password, email) ==
    /\ Free(c)
    /\ LET call == [Begin(c, "createPassword") EXCEPT !.inviteToken = inviteToken,
                                                      !.password = password,
                                                      !.email = email]
           found == FindByInviteToken(Hash(inviteToken))
       IN IF found = {} THEN Throw(c, call, "Invalid Token", 400)
          ELSE Continue(c, [call EXCEPT !.pc = "createPassword_write",
                                        !.teamMemberId = First(found)])
    /\ UNCHANGED <<store, nextId, nextToken, outbox>>

\* the rows service.createPassword's update selects
CreatePasswordTarget(call) == FindByEmail(call.email)

\* createPassword's update with the status column forgotten
CreatePasswordDataNoStatus(password) ==
    [password |-> BcryptHash(password), inviteToken |-> NULL]

\* createPassword's update leaving the invite token in place
CreatePasswordDataKeepToken(password) ==
    [password |-> BcryptHash(password), status |-> "ACTIVE"]

\* the columns service.createPassword's update writes
CreatePasswordData(password) ==
    [password |-> BcryptHash(password), status |-> "ACTIVE", inviteToken |-> NULL]

\* service.createPassword: prisma.teamMember.update
CreatePasswordWrite(c) ==
    /\ calls[c].pc = "createPassword_write"
    /\ LET target == CreatePasswordTarget(calls[c])
       IN IF target = {}
          THEN /\ Fail(c, calls[c], "Record to update not found")
               /\ UNCHANGED store
          ELSE /\ store' = Update(target, CreatePasswordData(calls[c].password))
               /\ Send(c, calls[c], 200)
    /\ UNCHANGED <<nextId, nextToken, outbox>>

(* ---------------------------- changeStatus ----------------------------- *)

\* controller.deactivate passing INACTIVE for DEACTIVATED
ControllerStatusesSlip == {"INACTIVE", "ACTIVE"}

\* controller.deactivate / controller.reactivate: the status they pass
ControllerStatuses == {"DEACTIVATED", "ACTIVE"}

\* the status test made against the wrong status
StatusChangeRefusedWrongStatus(teamMemberId) == store[teamMemberId].status = "DEACTIVATED"

\* service.changeStatus: teamMember.status === "INACTIVE"
StatusChangeRefused(teamMemberId) == store[teamMemberId].status = "INACTIVE"

\* service.changeStatus: findFirst by id and the three checks
ChangeStatusRead(c, adminId, teamMemberId, status) ==
    /\ Free(c)
    /\ LET call == [Begin(c, "changeStatus") EXCEPT !.adminId = adminId,
                                                    !.teamMemberId = teamMemberId,
                                                    !.status = status]
       IN IF FindById(teamMemberId) = {}
          THEN Throw(c, call, "Team member does not exist with following id", 404)
          ELSE IF NotOwnedBy(teamMemberId, adminId)
          THEN Throw(c, call, "Forbidden", 403)
          ELSE IF StatusChangeRefused(teamMemberId)
          THEN Throw(c, call, "Status Change is now allowed", 403)
          ELSE Continue(c, [call EXCEPT !.pc = "changeStatus_write"])
    /\ UNCHANGED <<store, nextId, nextToken, outbox>>

\* the rows matching {id, adminId}
FindByIdAndAdmin(id, adminId) == {i \in FindById(id) : store[i].adminId = adminId}

\* service.changeStatus: prisma.teamMember.update
ChangeStatusWrite(c) ==
    /\ calls[c].pc = "changeStatus_write"
    /\ LET target == FindByIdAndAdmin(calls[c].teamMemberId, calls[c].adminId)
       IN IF target = {}
          THEN /\ Fail(c, calls[c], "Record to update not found")
               /\ UNCHANGED store
          ELSE /\ store' = Update(target, [status |-> calls[c].status])
               /\ Send(c, calls[c], 204)
    /\ UNCHANGED <<nextId, nextToken, outbox>>

(* ------------------------------- update -------------------------------- *)

\* controller.update + service.update: one scoped prisma update
UpdateWrite(c, adminId, teamMemberId, updateData) ==
    /\ Free(c)
    /\ LET call == [Begin(c, "update") EXCEPT !.adminId = adminId,
                                              !.teamMemberId = teamMemberId]
           target == FindByIdAndAdmin(teamMemberId, adminId)
       IN IF target = {}
          THEN /\ Fail(c, call, "Record to update not found")
               /\ UNCHANGED store
          ELSE /\ store' = Update(target, updateData)
               /\ Send(c, call, 204)
    /\ UNCHANGED <<nextId, nextToken, outbox>>

(* -------------------------------- login -------------------------------- *)

\* login without the DEACTIVATED check
LoginBranchNoDeny(tm) ==
    IF tm.status = "INACTIVE" THEN "reissue" ELSE "compare"

\* service.login: the branch the status read selects
LoginBranch(tm) ==
    IF tm.status = "INACTIVE" THEN "reissue"
    ELSE IF tm.status = "DEACTIVATED" THEN "deny"
    ELSE "compare"

\* the INACTIVE branch writing the hash to the password column
LoginDataWrongColumn(inviteToken) == [password |-> Hash(inviteToken)]

\* the columns the INACTIVE branch of service.login writes
LoginData(inviteToken) == [inviteToken |-> Hash(inviteToken)]

\* service.login: findUnique by email, then the status checks
LoginRead(c, email, password) ==
    /\ Free(c)
    /\ LET call == [Begin(c, "login") EXCEPT !.email = email, !.password = password]
           found == FindByEmail(email)
       IN IF found = {}
          THEN /\ Throw(c, call, "Team member does not exist", 404)
               /\ UNCHANGED nextToken
          ELSE LET id == First(found)
                   tm == [id |-> id, adminId |-> store[id].adminId,
                          status |-> store[id].status, password |-> store[id].password]
                   seen == [call EXCEPT !.teamMember = tm, !.teamMemberId = id]
               IN IF LoginBranch(tm) = "reissue"
                  THEN /\ nextToken' = nextToken + 1
                       /\ Continue(c, [seen EXCEPT !.pc = "login_write",
                                                   !.inviteToken = nextToken])
                  ELSE /\ UNCHANGED nextToken
                       /\ IF LoginBranch(tm) = "deny"
                          THEN Throw(c, seen, "Oops. You do not have an access", 401)
                          ELSE Continue(c, [seen EXCEPT !.pc = "login_compare"])
    /\ UNCHANGED <<store, nextId, outbox>>

\* service.login, INACTIVE branch: prisma.teamMember.update by email
LoginWrite(c) ==
    /\ calls[c].pc = "login_write"
    /\ LET target == FindByEmail(calls[c].email)
       IN IF target = {}
          THEN /\ Fail(c, calls[c], "Record to update not found")
               /\ UNCHANGED store
          ELSE /\ store' = Update(target, LoginData(calls[c].inviteToken))
               /\ Continue(c, [calls[c] EXCEPT !.pc = "login_mail"])
    /\ UNCHANGED <<nextId, nextToken, outbox>>

\* service.login, INACTIVE branch: the mail, then the 400
LoginMail(c) ==
    /\ calls[c].pc = "login_mail"
    /\ SendMail(c, Throw(c, calls[c], "You did not set up the account password yet", 400))
    /\ UNCHANGED <<store, nextId, nextToken>>

\* the comparison without its await: the pending promise is truthy
IsPasswordMatchesNoAwait(call) == TRUE

\* service.login: isPasswordMatches
IsPasswordMatches(call) == Compare(call.password, call.teamMember.password)

\* service.login: bcrypt.compare against the password read, then jwt.sign
LoginCompare(c) ==
    /\ calls[c].pc = "login_compare"
    /\ IF ~IsPasswordMatches(calls[c])
       THEN Throw(c, calls[c], "Invalid Credentials", 401)
       ELSE Respond(c, calls[c], 200, "", JwtSign(calls[c].teamMember))
    /\ UNCHANGED <<store, nextId, nextToken, outbox>>

(* ----------------------------- the system ------------------------------ *)

Init ==
    /\ store = <<>>
    /\ nextId = 1
    /\ nextToken = 1
    /\ outbox = <<>>
    /\ calls = [c \in Calls |-> IdleCall]
    /\ response = NoResponse

\* the admins that invite team members, and the admins that send the other
\* admin requests; the service only compares admin ids for equality, so one
\* inviting admin and one other admin cover owner and non-owner
Owners == {"a1"}

\* the bodies a create request carries (all five fields present)
Inputs == {[email |-> e, firstName |-> "v1", lastName |-> "v1",
            position |-> "v1", joinDate |-> "v1"] : e \in Emails}

\* the bodies an update request carries: a subset of the four profile columns;
\* no check of the service reads a profile column, so the requests of Spec
\* carry one patch
UpdateDatas == {[position |-> "v1"]}

\* crypto.createToken() can still hand out a token of the bounded supply
TokenLeft == nextToken <= MaxTokens

\* the table can still grow within the bound
IdLeft == nextId <= MaxMembers

\* login would take its INACTIVE branch for this email
LoginReissues(email) == \E i \in FindByEmail(email) : store[i].status = "INACTIVE"

Next ==
    \E c \in Calls :
        \/ \E a \in Owners, in \in Inputs : TokenLeft /\ IdLeft /\ CreateInsert(c, a, in)
        \/ CreateMail(c)
        \/ \E a \in Admins, i \in Ids : DeleteRead(c, a, i)
        \/ DeleteWrite(c)
        \/ \E t \in Tokens, p \in Passwords, e \in Emails : CreatePasswordRead(c, t, p, e)
        \/ CreatePasswordWrite(c)
        \/ \E a \in Admins, i \in Ids, s \in ControllerStatuses : ChangeStatusRead(c, a, i, s)
        \/ ChangeStatusWrite(c)
        \/ \E a \in Admins, i \in Ids, d \in UpdateDatas : UpdateWrite(c, a, i, d)
        \/ \E e \in Emails, p \in Passwords :
              (LoginReissues(e) => TokenLeft) /\ LoginRead(c, e, p)
        \/ LoginWrite(c)
        \/ LoginMail(c)
        \/ LoginCompare(c)

Spec == Init /\ [][Next]_vars

(* ------------------- the system, profile updates ----------------------- *)

\* the columns controller.update copies from the request body
ProfileFields == {"firstName", "lastName", "position", "joinDate"}

\* the keys a request body may carry: the four profile columns and a column
\* the controller does not copy
BodyFields == ProfileFields \cup {"status"}

\* the value a body carries under a key
BodyValue(f) == IF f = "status" THEN "ACTIVE" ELSE "v2"

\* the bodies of the update requests: every subset of the keys, and the
\* bodies carrying one profile key with an empty string
Bodies ==
    {[f \in S |-> BodyValue(f)] : S \in SUBSET BodyFields}
       \cup {[f \in {g} |-> ""] : g \in ProfileFields}

\* the whole body passed on as updateData
UpdateDataWholeBody(body) == body

\* controller.update: updateData gets the profile fields the body carries
\* with a truthy value
UpdateData(body) == [f \in {g \in ProfileFields \cap DOMAIN body : body[g] # ""} |-> body[f]]

\* the ids an update request may name: those of the table and one beyond
ProfileIds == 1..(MaxMembers + 1)

\* a state the service is in after these requests, each run to its end:
\* create(a1, e1), create(a1, e2), createPassword(token of e1, p1, e1):
\* record 1 is ACTIVE, record 2 INACTIVE with its invite pending
InitInvited ==
    /\ store = <<[adminId |-> "a1", email |-> "e1", status |-> "ACTIVE",
                  password |-> BcryptHash("p1"), inviteToken |-> NULL,
                  firstName |-> "v1", lastName |-> "v1",
                  position |-> "v1", joinDate |-> "v1"],
                 [adminId |-> "a1", email |-> "e2", status |-> DefaultStatus,
                  password |-> NULL, inviteToken |-> Hash(2),
                  firstName |-> "v1", lastName |-> "v1",
                  position |-> "v1", joinDate |-> "v1"]>>
    /\ nextId = 3
    /\ nextToken = 3
    /\ outbox = <<[to |-> "e1", token |-> 1], [to |-> "e2", token |-> 2]>>
    /\ calls = [c \in Calls |-> IdleCall]
    /\ response = [status |-> 200, message |-> "", token |-> NULL]

\* update awaits once and keeps nothing in its call slot, and no other
\* request runs in SpecProfile: its requests all use one slot
ProfileCalls == {"c1"}

\* the update requests, carrying every body, by both admins
NextProfile ==
    \E c \in ProfileCalls :
        \E a \in Admins, i \in ProfileIds, b \in Bodies : UpdateWrite(c, a, i, UpdateData(b))

SpecProfile == InitInvited /\ [][NextProfile]_vars

(* ---------------------- the system, re-invites ------------------------ *)

\* number of invite tokens crypto.createToken() hands out in SpecReissue:
\* the two of InitInvited and two re-issued by login
MaxReissueTokens == 4

\* the login requests, issued from InitInvited: e1 is ACTIVE, e2 is INACTIVE
\* with its invite delivered
NextReissue ==
    \E c \in Calls :
        \/ \E e \in Emails, p \in Passwords :
              (LoginReissues(e) => nextToken <= MaxReissueTokens) /\ LoginRead(c, e, p)
        \/ LoginWrite(c)
        \/ LoginMail(c)
        \/ LoginCompare(c)

SpecReissue == InitInvited /\ [][NextReissue]_vars

(* ---------------------------- properties ------------------------------- *)

\* the three columns of a row that carry the account's credentials and state
Credentials(r) == <<r.password, r.status, r.inviteToken>>

\* C1: createPassword modifies only the record its token lookup matched: a
\* createPassword write that was started with record A's pending token and
\* carries the email of another record B either fails or leaves B's password,
\* status and inviteToken as they were.
C1_OnlyMatchedRecordModified ==
    [][\A c \in Calls :
          CreatePasswordWrite(c) =>
             \A b \in FindByEmail(calls[c].email) :
                b # calls[c].teamMemberId =>
                   \/ response'.status >= 400
                   \/ Credentials(store'[b]) = Credentials(store[b])]_vars

\* C2: in every reachable state an ACTIVE team member has a password hash and
\* no invite token hash.
C2_ActiveHasPasswordNoToken ==
    \A i \in DOMAIN store :
       store[i].status = "ACTIVE" =>
          store[i].password # NULL /\ store[i].inviteToken = NULL

\* C3: in every reachable state an INACTIVE team member has an invite token
\* hash and no password hash.
C3_InactiveHasTokenNoPassword ==
    \A i \in DOMAIN store :
       store[i].status = "INACTIVE" =>
          store[i].inviteToken # NULL /\ store[i].password = NULL

\* C3 witness: an INACTIVE member that was invited and then re-invited by a
\* login attempt, the second mail carrying the token whose hash is stored.
C3_Witness ==
    \E i \in DOMAIN store :
       /\ store[i].status = "INACTIVE"
       /\ Len(outbox) = 2
       /\ outbox[1].to = store[i].email
       /\ outbox[2].to = store[i].email
       /\ store[i].inviteToken = Hash(outbox[2].token)

\* a step takes record i from one of ACTIVE, DEACTIVATED to the other
Flips(i) ==
    /\ i \in DOMAIN store /\ i \in DOMAIN store'
    /\ {store[i].status, store'[i].status} = {"ACTIVE", "DEACTIVATED"}

\* C4: a record's status moves between ACTIVE and DEACTIVATED only in the
\* write of a changeStatus call made for that record with its owner's adminId;
\* no step of any other operation moves it.
C4_FlipOnlyByOwnerChangeStatus ==
    [][\A i \in Ids :
          Flips(i) =>
             \E c \in Calls :
                /\ ChangeStatusWrite(c)
                /\ calls[c].teamMemberId = i
                /\ calls[c].adminId = store[i].adminId]_vars

\* C5: a record whose status is ACTIVE or DEACTIVATED is not INACTIVE after
\* any step, and a deleted record's id is never given to a new record, so the
\* record is never INACTIVE again (changeStatus being called with ACTIVE or
\* DEACTIVATED only, as the controller does).
C5_NeverInactiveAgain ==
    [][/\ \A i \in DOMAIN store :
             store[i].status \in {"ACTIVE", "DEACTIVATED"} =>
                (i \in DOMAIN store' => store'[i].status # "INACTIVE")
       /\ \A i \in Ids :
             (i < nextId /\ i \notin DOMAIN store) => i \notin DOMAIN store']_vars

\* C5 witness: a record that was activated, deactivated by its admin, and
\* is the subject of a changeStatus call that has passed its checks.
C5_Witness ==
    \E i \in DOMAIN store, c \in Calls :
       /\ store[i].status = "DEACTIVATED"
       /\ calls[c].pc = "changeStatus_write"
       /\ calls[c].teamMemberId = i
       /\ calls[c].status = "ACTIVE"

\* C6: an invite token is single-use: a createPassword call that succeeds with
\* plaintext token t leaves no record whose inviteToken is the hash of t, so
\* that every later createPassword with t finds no record and fails.
C6_TokenSingleUse ==
    [][\A c \in Calls :
          (CreatePasswordWrite(c) /\ response'.status = 200) =>
             \A i \in DOMAIN store' :
                store'[i].inviteToken # Hash(calls[c].inviteToken)]_vars

\* C7: the step that deletes a record finds it INACTIVE, and a delete request
\* for an ACTIVE or DEACTIVATED record fails and leaves the store as it was.
C7_RemoveOnlyInactive ==
    [][/\ \A i \in DOMAIN store :
             i \notin DOMAIN store' => store[i].status = "INACTIVE"
       /\ \A c \in Calls, a \in Admins, i \in DOMAIN store :
             (DeleteRead(c, a, i) /\ store[i].status \in {"ACTIVE", "DEACTIVATED"}) =>
                (response'.status >= 400 /\ calls'[c] = IdleCall /\ store' = store)]_vars

\* the mail a login call on its INACTIVE branch is to send
ReissueMail(call) == [to |-> call.email, token |-> call.inviteToken]

PasswordNotSet ==
    [status |-> 400, message |-> "You did not set up the account password yet",
     token |-> NULL]

\* what C8 says of the read of a login call that finds the member INACTIVE:
\* one fresh token is generated, nothing is stored, mailed or answered yet
C8_Read(c) ==
    \A e \in Emails, p \in Passwords :
       (LoginRead(c, e, p) /\ LoginReissues(e)) =>
          /\ nextToken' = nextToken + 1
          /\ calls'[c].pc = "login_write"
          /\ calls'[c].email = e
          /\ calls'[c].inviteToken = nextToken
          /\ \A i \in DOMAIN store : store[i].inviteToken # Hash(nextToken)
          /\ UNCHANGED <<store, outbox, response>>

\* the new token's hash is stored in the record with the call's email, and no
\* record keeps the hash that record held before
C8_Stored(c) ==
    /\ FindByEmail(calls[c].email) # {}
    /\ \A i \in FindByEmail(calls[c].email) :
          /\ store'[i].inviteToken = Hash(calls[c].inviteToken)
          /\ store[i].inviteToken # NULL =>
                \A j \in DOMAIN store' : store'[j].inviteToken # store[i].inviteToken
          /\ store' = [store EXCEPT ![i].inviteToken = Hash(calls[c].inviteToken)]
    /\ calls'[c].pc = "login_mail"
    /\ UNCHANGED <<nextToken, outbox, response>>

\* exactly one mail, carrying the call's token, and the 400
C8_Mailed(c) ==
    /\ outbox' = Append(outbox, ReissueMail(calls[c]))
    /\ response' = PasswordNotSet
    /\ UNCHANGED <<nextToken, store>>

\* C8 as stated: login on an INACTIVE member returns no credential, fails
\* with the 400 'password not yet set' error, generates exactly one new token,
\* stores its hash, sends exactly one mail carrying the plaintext token, and
\* the token pending before no longer matches any stored hash.
C8_AlwaysReissuesAndMails ==
    [][\A c \in Calls :
          /\ C8_Read(c)
          /\ LoginWrite(c) => C8_Stored(c)
          /\ LoginMail(c) => C8_Mailed(c)]_vars

\* C8 amended: login on a member read as INACTIVE returns no credential and
\* generates exactly one new token.  If a record with the email still exists
\* when the update runs, the token's hash is stored in it and the token
\* pending before matches no stored hash; otherwise the call ends with the
\* store's error, nothing stored, nothing mailed.  If the mail dispatch then
\* succeeds, exactly one mail carrying the token is sent and the call fails
\* with the 400 error; if the dispatch fails the call ends with that failure
\* and no mail.
C8_ReissueOnInactive ==
    [][\A c \in Calls :
          /\ C8_Read(c)
          /\ LoginWrite(c) =>
                \/ C8_Stored(c)
                \/ /\ FindByEmail(calls[c].email) = {}
                   /\ response'.status = 500 /\ response'.token = NULL
                   /\ calls'[c] = IdleCall
                   /\ UNCHANGED <<nextToken, outbox, store>>
          /\ LoginMail(c) =>
                \/ C8_Mailed(c)
                \/ /\ response'.status = 500 /\ response'.token = NULL
                   /\ UNCHANGED <<nextToken, outbox, store>>]_vars

\* C8 witness: an invited member logged in while INACTIVE: the 400 was sent,
\* the second mail carries the token whose hash is stored, and the token of
\* the invite mail matches no record any more.
C8_Witness ==
    /\ response = PasswordNotSet
    /\ Len(outbox) = 2
    /\ outbox[1].to = outbox[2].to
    /\ \E i \in DOMAIN store :
          /\ store[i].email = outbox[2].to
          /\ store[i].status = "INACTIVE"
          /\ store[i].inviteToken = Hash(outbox[2].token)
    /\ FindByInviteToken(Hash(outbox[1].token)) = {}

AccessDenied ==
    [status |-> 401, message |-> "Oops. You do not have an access", token |-> NULL]

\* C9: login on a DEACTIVATED member ends at once with the 401, no credential,
\* no token generated, no mail, and no record changed, whatever the password.
C9_DeactivatedLoginDenied ==
    [][\A c \in Calls, e \in Emails, p \in Passwords :
          (LoginRead(c, e, p) /\ \E i \in FindByEmail(e) : store[i].status = "DEACTIVATED") =>
             /\ response' = AccessDenied
             /\ calls'[c] = IdleCall
             /\ UNCHANGED <<store, outbox, nextToken, nextId>>]_vars

\* C9 witness: the 401 of the DEACTIVATED branch was sent and the member is
\* still DEACTIVATED.
C9_Witness ==
    /\ response = AccessDenied
    /\ \E i \in DOMAIN store : store[i].status = "DEACTIVATED"

InvalidCredentials ==
    [status |-> 401, message |-> "Invalid Credentials", token |-> NULL]

\* C10: login on an ACTIVE member compares the supplied password with the
\* hash stored in that record; when it verifies, the response carries a
\* credential whose claims are exactly that record's id and adminId, otherwise
\* the call fails with the 401 and no credential; no step of the call changes
\* a record.
C10_LoginActive ==
    [][\A c \in Calls :
          /\ \A e \in Emails, p \in Passwords :
                (LoginRead(c, e, p) /\ \E i \in FindByEmail(e) : store[i].status = "ACTIVE") =>
                   \E i \in FindByEmail(e) :
                      /\ calls'[c].pc = "login_compare"
                      /\ calls'[c].password = p
                      /\ calls'[c].teamMember.id = i
                      /\ calls'[c].teamMember.adminId = store[i].adminId
                      /\ calls'[c].teamMember.password = store[i].password
                      /\ UNCHANGED <<store, outbox, nextToken, response>>
          /\ LoginCompare(c) =>
                /\ UNCHANGED <<store, outbox, nextToken>>
                /\ calls'[c] = IdleCall
                /\ IF calls[c].teamMember.password = BcryptHash(calls[c].password)
                   THEN /\ response'.status = 200
                        /\ response'.token =
                              <<"jwt", calls[c].teamMember.id, calls[c].teamMember.adminId, "2 days">>
                        /\ calls[c].teamMember.id \in DOMAIN store =>
                              store[calls[c].teamMember.id].adminId = response'.token[3]
                   ELSE response' = InvalidCredentials]_vars

\* C10 witness: a credential was issued whose claims are the id and adminId
\* of an ACTIVE record.
C10_Witness ==
    /\ response.status = 200
    /\ response.token # NULL
    /\ \E i \in DOMAIN store :
          /\ store[i].status = "ACTIVE"
          /\ response.token = <<"jwt", i, store[i].adminId, "2 days">>

Forbidden == [status |-> 403, message |-> "Forbidden", token |-> NULL]

\* C11: a delete or changeStatus request whose adminId differs from the
\* adminId of the record it names ends at once with the 403 'Forbidden',
\* whatever the record's status, and leaves the store as it was.
C11_NonOwnerForbidden ==
    [][\A c \in Calls, a \in Admins, i \in DOMAIN store :
          store[i].adminId # a =>
             /\ DeleteRead(c, a, i) =>
                   (response' = Forbidden /\ calls'[c] = IdleCall /\ store' = store)
             /\ \A s \in ControllerStatuses :
                   ChangeStatusRead(c, a, i, s) =>
                      (response' = Forbidden /\ calls'[c] = IdleCall /\ store' = store)]_vars

\* C11 witness: the only record ever created was activated and deactivated
\* by its admin, and the last request, made after that, got the 403.
C11_Witness ==
    /\ response = Forbidden
    /\ nextId = 2
    /\ \A c \in Calls : calls[c] = IdleCall
    /\ \E i \in DOMAIN store : store[i].status = "DEACTIVATED"

\* inviteToken is the token pending for INACTIVE record i, and email is that
\* record's email
PendingFor(i, inviteToken, email) ==
    /\ i \in DOMAIN store
    /\ store[i].status = "INACTIVE"
    /\ store[i].inviteToken = Hash(inviteToken)
    /\ store[i].email = email

\* C12: createPassword with the token pending for an INACTIVE member and
\* that member's email: the lookup accepts the token and selects that record,
\* and the update makes it ACTIVE, stores a hash the supplied password
\* verifies against, nulls its invite token, answers 200, and leaves every
\* other column and every other record as it was.
C12_CompleteSetupActivates ==
    [][\A c \in Calls :
          /\ \A t \in Tokens, p \in Passwords, e \in Emails, i \in DOMAIN store :
                (PendingFor(i, t, e) /\ CreatePasswordRead(c, t, p, e)) =>
                   /\ calls'[c].pc = "createPassword_write"
                   /\ calls'[c].teamMemberId = i
                   /\ calls'[c].email = e /\ calls'[c].password = p
                   /\ calls'[c].inviteToken = t
                   /\ UNCHANGED <<store, response>>
          /\ (/\ calls[c].pc = "createPassword_write"
              /\ PendingFor(calls[c].teamMemberId, calls[c].inviteToken, calls[c].email)
              /\ CreatePasswordWrite(c)) =>
                LET i == calls[c].teamMemberId
                IN /\ DOMAIN store' = DOMAIN store
                   /\ store'[i].status = "ACTIVE"
                   /\ Compare(calls[c].password, store'[i].password)
                   /\ store'[i].inviteToken = NULL
                   /\ store' = [store EXCEPT ![i].status = "ACTIVE",
                                             ![i].password = store'[i].password,
                                             ![i].inviteToken = NULL]
                   /\ response'.status = 200]_vars

\* C12 witness: a createPassword call whose lookup accepted the token pending
\* for an INACTIVE record, carrying that record's email, is at its update,
\* with a second record in the store.
C12_Witness ==
    \E c \in Calls :
       /\ calls[c].pc = "createPassword_write"
       /\ PendingFor(calls[c].teamMemberId, calls[c].inviteToken, calls[c].email)
       /\ Cardinality(DOMAIN store) = 2

\* no record's inviteToken is the hash of t
MatchesNoRecord(t) == \A i \in DOMAIN store : store[i].inviteToken # Hash(t)

InvalidToken == [status |-> 400, message |-> "Invalid Token", token |-> NULL]

C14_OwnerRemoveActiveForbidden ==
    [][\A c \in Calls, i \in DOMAIN store :
          (Free(c) /\ store[i].status \in {"ACTIVE", "DEACTIVATED"}) =>
             \A a \in Admins :
                (store[i].adminId = a /\ DeleteRead(c, a, i)) =>
                   /\ response'.status = 403
                   /\ calls'[c] = IdleCall
                   /\ store' = store]_vars

StatusChangeNotAllowed ==
    [status |-> 403, message |-> "Status Change is now allowed", token |-> NULL]

\* C15: a changeStatus request made with the record's own adminId for an
\* INACTIVE record ends at once with the 403, for DEACTIVATED and for ACTIVE
\* as the new status, and the record stays INACTIVE, the store as it was.
C15_InactiveStatusChangeRefused ==
    [][\A c \in Calls, i \in DOMAIN store :
          (Free(c) /\ store[i].status = "INACTIVE") =>
             \A a \in Admins, s \in ControllerStatuses :
                (store[i].adminId = a /\ ChangeStatusRead(c, a, i, s)) =>
                   /\ response' = StatusChangeNotAllowed
                   /\ calls'[c] = IdleCall
                   /\ store' = store
                   /\ store'[i].status = "INACTIVE"]_vars

\* C15 witness: the 403 of the INACTIVE check was the last answer and an
\* invited member whose invite mail was delivered is INACTIVE.
C15_Witness ==
    /\ response = StatusChangeNotAllowed
    /\ \A c \in Calls : calls[c] = IdleCall
    /\ \E i \in DOMAIN store :
          /\ store[i].status = "INACTIVE"
          /\ \E k \in 1..Len(outbox) : outbox[k].to = store[i].email

\* the mail a create call is to send
InviteMail(call) == [to |-> call.email, token |-> call.inviteToken]

\* C16: a create request carrying all five fields, whose email no record
\* holds, inserts exactly one record: INACTIVE, adminId the caller's, no
\* password, the profile as given, and inviteToken the hash of a fresh token;
\* no other record changes and nothing is mailed by the insert.  The call
\* then makes its one dispatch, to the email of the profile and carrying that
\* same plaintext token: the provider delivers exactly that mail and the
\* call answers 201, or the dispatch throws and nothing is delivered.
C16_InviteCreatesInactive ==
    [][\A c \in Calls :
          /\ Free(c) =>
                \A a \in Admins, in \in Inputs :
                   (FindByEmail(in.email) = {} /\ CreateInsert(c, a, in)) =>
                      /\ nextId \notin DOMAIN store
                      /\ DOMAIN store' = DOMAIN store \cup {nextId}
                      /\ \A j \in DOMAIN store : store'[j] = store[j]
                      /\ store'[nextId] =
                            [adminId |-> a, email |-> in.email, status |-> "INACTIVE",
                             password |-> NULL,
                             inviteToken |-> Hash(calls'[c].inviteToken),
                             firstName |-> in.firstName, lastName |-> in.lastName,
                             position |-> in.position, joinDate |-> in.joinDate]
                      /\ MatchesNoRecord(calls'[c].inviteToken)
                      /\ calls'[c].pc = "create_mail"
                      /\ calls'[c].teamMemberId = nextId
                      /\ calls'[c].email = in.email
                      /\ UNCHANGED <<outbox, response>>
          /\ CreateMail(c) =>
                /\ calls'[c] = IdleCall
                /\ UNCHANGED <<store, nextToken, nextId>>
                /\ \/ /\ outbox' = Append(outbox, InviteMail(calls[c]))
                      /\ response'.status = 201
                   \/ /\ outbox' = outbox
                      /\ response'.status = 500]_vars

\* C16 witness: one create request was answered 201; its record is INACTIVE
\* with admin a1, no password, and the hash of the token the one mail in the
\* outbox carries to the record's email.
C16_Witness ==
    /\ response.status = 201
    /\ \A c \in Calls : calls[c] = IdleCall
    /\ Len(outbox) = 1
    /\ \E i \in DOMAIN store :
          /\ DOMAIN store = {i}
          /\ store[i].status = "INACTIVE"
          /\ store[i].adminId = "a1"
          /\ store[i].password = NULL
          /\ store[i].email = outbox[1].to
          /\ store[i].inviteToken = Hash(outbox[1].token)

\* C17 as stated: at every step that sends (or fails to send) the invite
\* mail of a create call, the record the call inserted is in the store, and
\* when the dispatch fails the record is still there with its inviteToken.
C17_RecordExistsAtDispatch ==
    [][\A c \in Calls :
          CreateMail(c) =>
             /\ calls[c].teamMemberId \in DOMAIN store
             /\ response'.status = 500 =>
                   /\ calls[c].teamMemberId \in DOMAIN store'
                   /\ store'[calls[c].teamMemberId].inviteToken # NULL
                   /\ store'[calls[c].teamMemberId].inviteToken =
                         store[calls[c].teamMemberId].inviteToken]_vars

\* C17 amended: a create call reaches its dispatch only by the step that
\* inserts its record; while the call waits at its dispatch the record leaves
\* the store only by the delete of another request; and the dispatch step,
\* delivered or failed, leaves the store as it was (no rollback).
C17_CreatedBeforeDispatch ==
    [][\A c \in Calls :
          /\ (calls[c].pc # "create_mail" /\ calls'[c].pc = "create_mail") =>
                /\ calls'[c].teamMemberId \notin DOMAIN store
                /\ calls'[c].teamMemberId \in DOMAIN store'
                /\ store'[calls'[c].teamMemberId].inviteToken = Hash(calls'[c].inviteToken)
          /\ (/\ calls[c].pc = "create_mail"
              /\ calls[c].teamMemberId \in DOMAIN store
              /\ calls[c].teamMemberId \notin DOMAIN store') =>
                \E d \in Calls \ {c} :
                   DeleteWrite(d) /\ calls[d].teamMemberId = calls[c].teamMemberId
          /\ CreateMail(c) =>
                /\ calls[c].teamMemberId < nextId
                /\ store' = store]_vars

\* C17 witness: the only request so far was a create whose dispatch failed:
\* nothing was delivered, and the record is in the store with the hash of the
\* token that was generated for it.
C17_Witness ==
    /\ response = [status |-> 500, message |-> "mail dispatch failed", token |-> NULL]
    /\ \A c \in Calls : calls[c] = IdleCall
    /\ outbox = <<>>
    /\ nextToken = 2
    /\ \E i \in DOMAIN store :
          store[i].status = "INACTIVE" /\ store[i].inviteToken = Hash(1)

\* C18: an update request changes a column of a record only if the record
\* has the id and the adminId of the request, the column is one of the four
\* profile columns, and the body carries it, the new value being the body's;
\* no record is added or removed; and when no record has that id and
\* adminId (no such id, or the record of another admin) the store is as it
\* was.
C18_UpdateChangesOnlySupplied ==
    [][\A c \in ProfileCalls, a \in Admins, i \in ProfileIds, b \in Bodies :
          UpdateWrite(c, a, i, UpdateData(b)) =>
             /\ DOMAIN store' = DOMAIN store
             /\ \A j \in DOMAIN store : \A f \in DOMAIN store[j] :
                   store'[j][f] # store[j][f] =>
                      /\ j = i /\ store[j].adminId = a
                      /\ f \in ProfileFields \cap DOMAIN b
                      /\ store'[j][f] = b[f]
             /\ \A j \in DOMAIN store :
                   DOMAIN store'[j] = DOMAIN store[j]
             /\ (i \notin DOMAIN store \/ store[i].adminId # a) => store' = store]_vars

\* C18 witness: after update requests the ACTIVE record of a1 has a new
\* position and its other columns as before, the other record is as it was,
\* and the last request, which named no record of its admin, failed.
C18_Witness ==
    /\ response.status = 500
    /\ store[1] = [adminId |-> "a1", email |-> "e1", status |-> "ACTIVE",
                   password |-> BcryptHash("p1"), inviteToken |-> NULL,
                   firstName |-> "v1", lastName |-> "v1",
                   position |-> "v2", joinDate |-> "v1"]
    /\ store[2].status = "INACTIVE" /\ store[2].inviteToken = Hash(2)
    /\ store[2].position = "v1"

\* C19: the step of a login call that answers with a credential finds the
\* member it authenticates ACTIVE: no credential is issued for a record that
\* is in the store with another status, in particular after a changeStatus
\* that ran during the call has made it DEACTIVATED.
C19_CredentialOnlyWhileActive ==
    [][\A c \in Calls :
          (LoginCompare(c) /\ response'.token # NULL) =>
             (calls[c].teamMemberId \in DOMAIN store =>
                 store[calls[c].teamMemberId].status = "ACTIVE")]_vars

\* the mail at place k of the outbox is the last one sent to email
LastMailTo(k, email) ==
    /\ k \in 1..Len(outbox)
    /\ outbox[k].to = email
    /\ \A m \in (k + 1)..Len(outbox) : outbox[m].to # email

\* C20: when no request is in flight, the last mail delivered to an INACTIVE
\* member carries the token whose hash is stored in the member's record
\* (stated for the states in which every token handed out was delivered, so
\* that no failed dispatch is involved), also after two login calls on the
\* member have interleaved their update and their mail.
C20_LastMailMatchesStored ==
    (/\ \A c \in Calls : calls[c] = IdleCall
     /\ Len(outbox) = nextToken - 1) =>
       \A i \in DOMAIN store, k \in 1..Len(outbox) :
          (store[i].status = "INACTIVE" /\ LastMailTo(k, store[i].email)) =>
             store[i].inviteToken = Hash(outbox[k].token)
====
